---- MODULE Spec2Model ----
(***************************************************************************)
(* ArcaneForge: the client-side rate limiter (services/rateLimit.ts), the  *)
(* list cache / item store client (services/storageService.ts), the        *)
(* thumbnail deriver (services/imageUtils.ts) and the generation           *)
(* orchestrator (App.tsx).                                                 *)
(*                                                                         *)
(* The specifications share the variables below:                           *)
(*   SpecRL     the limiter started from an empty log, working storage,    *)
(*              a non-decreasing clock;                                    *)
(*   SpecRLAny  the limiter over an arbitrary persisted value, with        *)
(*              storage faults;                                            *)
(*   SpecCache  the list cache with foreground fetches, background         *)
(*              refreshes, mutations and invalidation;                     *)
(*   SpecViews  the store requests of the list and detail views;           *)
(*   SpecConfig the storage service while the store URL changes;           *)
(*   SpecInval  invalidateCache over a storage that may raise;             *)
(*   SpecWrite  the cache write over a storage whose setItem may throw;    *)
(*   SpecThumb  generateThumbnail over sources and bounds of any size;     *)
(*   SpecGen    handleGenerate of src/App.tsx;                             *)
(*   SpecGenFair  SpecGen with every await settling.                       *)
(***************************************************************************)
EXTENDS Integers, Sequences, FiniteSets, Bags, TLC

\* ------------------------------------------------------------------------
\* Bounds of the model
\* ------------------------------------------------------------------------
MaxCalls == 7        \* limiter calls explored by SpecRL
MaxAnyCalls == 1     \* limiter calls explored by SpecRLAny
MaxRawLen == 5       \* longest persisted list drawn by SpecRLAny
NowBase == 100000    \* clock value at which SpecRLAny starts (ms)
MaxOps == 3          \* storage-service operations started in SpecCache
MaxInflight == 2     \* store requests in flight at once
MaxCacheNow == 300001 \* last clock value of SpecCache (ms)
MaxAttempts == 2     \* calls of handleGenerate in SpecGen
MaxRows == 51        \* rows of the larger table of SpecWrite
MaxSide == 7         \* largest image side of SpecThumb (pixels)
MaxBound == 4        \* largest maxWidth / maxHeight of SpecThumb

\* ------------------------------------------------------------------------
\* Program constants
\* ------------------------------------------------------------------------
MAX_GENERATIONS_PER_MINUTE == 5
windowMs == 60 * 1000

\* Delays (ms) between two successive readings of Date.now()
ClockSteps == {0, 1, 999, 15000, 59000}

\* Delays (ms) by which the clock of SpecCache advances
CacheSteps == {300000, 300001}

\* ------------------------------------------------------------------------
\* localStorage values.  A stored string is represented by what JSON.parse
\* makes of it: kind "list" carries the array, "nonlist" is any other JSON
\* value ('{}', '7', 'null', '"x"'), "garbage" is text that is not JSON,
\* "empty" is the empty string and "null" is an absent key.
\* ------------------------------------------------------------------------
NoValue == [kind |-> "null", val |-> <<>>]
EmptyString == [kind |-> "empty", val |-> <<>>]
Garbage == [kind |-> "garbage", val |-> <<>>]
NonList == [kind |-> "nonlist", val |-> <<>>]

\* JSON.stringify of an array of numbers
JSONstringify(list) == [kind |-> "list", val |-> list]

\* JSON.parse: throws on text that is not JSON; any other value is returned
JSONparse(raw) ==
    IF raw.kind = "list" THEN [throws |-> FALSE, isArray |-> TRUE, val |-> raw.val]
    ELSE IF raw.kind = "nonlist" THEN [throws |-> FALSE, isArray |-> FALSE, val |-> <<>>]
    ELSE [throws |-> TRUE, isArray |-> FALSE, val |-> <<>>]

\* Math.ceil(a / b) for b > 0
Ceil(a, b) == -((-a) \div b)

Max(a, b) == IF a >= b THEN a ELSE b
Min(a, b) == IF a <= b THEN a ELSE b

RecentOfInclusive(parsed, t) == SelectSeq(parsed, LAMBDA ts : t - ts <= windowMs)

\* parsed.filter((ts) => now - ts < windowMs)
RecentOf(parsed, t) == SelectSeq(parsed, LAMBDA ts : t - ts < windowMs)

LimitReachedEarly(recent) == Len(recent) >= MAX_GENERATIONS_PER_MINUTE - 1

LimitReachedLate(recent) == Len(recent) > MAX_GENERATIONS_PER_MINUTE

\* recent.length >= MAX_GENERATIONS_PER_MINUTE
LimitReached(recent) == Len(recent) >= MAX_GENERATIONS_PER_MINUTE

NextLogUnfiltered(parsed, recent, t) == Append(parsed, t)

\* recent.push(now): the list handed to setItem
NextLog(parsed, recent, t) == Append(recent, t)

RetryAfterSecondsFloor(retryAfterMs) == Max(1, retryAfterMs \div 1000)

\* Math.max(1, Math.ceil(retryAfterMs / 1000))
RetryAfterSeconds(retryAfterMs) == Max(1, Ceil(retryAfterMs, 1000))

Allowed(stored) == [allowed |-> TRUE, hasRetry |-> FALSE, retryAfterSeconds |-> 0,
                    raised |-> FALSE, stored |-> stored]

Denied(retry, stored) == [allowed |-> FALSE, hasRetry |-> TRUE, retryAfterSeconds |-> retry,
                          raised |-> FALSE, stored |-> stored]

FailClosed(raw) == [allowed |-> FALSE, hasRetry |-> FALSE, retryAfterSeconds |-> 0,
                    raised |-> TRUE, stored |-> raw]

\* the catch block: warn and allow
FailOpen(raw) == Allowed(raw)

LogAfterDenialRecorded(raw, recent, t) == JSONstringify(Append(recent, t))

\* the denied branch returns before recent.push(now) and setItem: the
\* value under RATE_LIMIT_KEY stays
LogAfterDenial(raw, recent, t) == raw

\* checkClientRateLimit(): raw is the value under RATE_LIMIT_KEY, t the
\* reading of Date.now(); hasWindow, getThrows and setThrows are the
\* environment (no window object, localStorage.getItem / setItem throwing).
\* The result carries the value left under RATE_LIMIT_KEY.
checkClientRateLimit(raw, t, hasWindow, getThrows, setThrows) ==
    IF ~hasWindow THEN Allowed(raw)
    ELSE IF getThrows THEN FailOpen(raw)
    ELSE LET falsy == raw.kind \in {"null", "empty"}
             p == IF falsy THEN [throws |-> FALSE, isArray |-> TRUE, val |-> <<>>]
                  ELSE JSONparse(raw)
         IN  IF p.throws \/ ~p.isArray THEN FailOpen(raw)
             ELSE LET recent == RecentOf(p.val, t)
                  IN  IF LimitReached(recent)
                      THEN LET oldest == recent[1]
                               retryAfterMs == windowMs - (t - oldest)
                           IN  Denied(RetryAfterSeconds(retryAfterMs),
                                      LogAfterDenial(raw, recent, t))
                      ELSE IF setThrows THEN FailOpen(raw)
                      ELSE Allowed(JSONstringify(NextLog(p.val, recent, t)))

\* ------------------------------------------------------------------------
\* State
\* ------------------------------------------------------------------------
VARIABLES
    now,        \* last reading of Date.now()
    rlRaw,      \* localStorage[RATE_LIMIT_KEY]
    rlCalls,    \* number of checkClientRateLimit calls made
    rlFirstAt,  \* clock reading of the first call (-1 before it)
    rlAllowedAt,\* clock readings of the latest (at most 5) calls in a row that were allowed
    rlLast,     \* the latest call: its inputs and its result
    supabaseUrl, \* import.meta.env.VITE_SUPABASE_URL
    store,      \* rows of table magic_items, newest first
    nextId,     \* next identifier the store assigns
    cacheItems, \* localStorage[CACHE_KEY_ITEMS]
    cacheTs,    \* localStorage[CACHE_KEY_TIMESTAMP] (NoTimestamp when absent)
    cacheStale, \* the cached list was read from the store before an invalidation that has happened since
    invalEpoch, \* number of invalidateCache() calls so far
    tasks,      \* bag of store requests in flight, each with the continuation waiting for it
    nextTask,   \* number of operations started, plus one
    lastQuery,  \* the latest request sent to the store
    lastCall,   \* the latest getSavedItems / searchSavedItems call, as it looked at the cache
    lastRead,   \* the latest value a read operation returned to its caller
    lastDone,   \* the latest saveItem / removeItem that returned or raised
    mutated,    \* a mutation has succeeded and no getSavedItems call was made since
    refilled,   \* a fetch has written the cache since the latest successful mutation
    genPc,        \* handleGenerate: the await it is suspended at, or "idle"
    isGenerating, \* App state isGenerating
    result,       \* App state result
    error,        \* App state error
    recentItems,  \* App state recentItems
    events,       \* the requests of the current attempt and their outcomes, in order
    savedWith,    \* the argument of the latest saveItem call of handleGenerate
    attempts,     \* the number of calls of handleGenerate
    thumbnail     \* the latest call of generateThumbnail: source, bounds, canvas size

rlVars == <<rlRaw, rlCalls, rlFirstAt, rlAllowedAt, rlLast>>

cacheVars == <<supabaseUrl, store, nextId, cacheItems, cacheTs, cacheStale,
               invalEpoch, tasks, nextTask, lastQuery, lastCall, lastRead, lastDone,
               mutated, refilled>>

appVars == <<genPc, isGenerating, result, error, recentItems, events, savedWith, attempts,
             thumbnail>>

vars == <<now, rlVars, cacheVars, appVars>>

\* ------------------------------------------------------------------------
\* List cache and item store client (services/storageService.ts)
\* ------------------------------------------------------------------------
\* values of VITE_SUPABASE_URL: undefined, or a string given by its parts
UnsetUrl == [kind |-> "undefined", val |-> <<>>]
EmptyUrl == [kind |-> "string", val |-> <<>>]
PlaceholderUrl == [kind |-> "string", val |-> <<"https://", "placeholder", ".supabase.co">>]
ConfiguredUrl == [kind |-> "string", val |-> <<"https://", "abcd", ".supabase.co">>]
Urls == {UnsetUrl, EmptyUrl, PlaceholderUrl, ConfiguredUrl}

isSupabaseConfiguredAnyString(url) == url.kind = "string" /\ url.val # <<>>

\* !!(url && url !== '' && !url.includes('placeholder'))
isSupabaseConfigured(url) ==
    /\ url.kind = "string"
    /\ url.val # <<>>
    /\ ~\E i \in DOMAIN url.val : url.val[i] = "placeholder"

\* isSupabaseConfigured() as the operation being called evaluates it
configured == isSupabaseConfigured(supabaseUrl)

CACHE_DURATION == 5 * 60 * 1000
DefaultQueryLimit == 100      \* const queryLimit = limit || 100

NoTimestamp == -1

\* What saveItem is given: an item with or without a generated image, and
\* its name (itemData.name) as a string of characters
Templates == { [name |-> <<"D">>, image |-> TRUE] }

\* limit arguments; 0 stands for an omitted limit (both are falsy)
Limits == {0, 1}

\* search strings
Queries == { <<>>, <<" ">>, <<"d">> }

Take(s, n) == SubSeq(s, 1, Min(n, Len(s)))

\* item.thumbnail_url || null as the imageUrl of a listed item
ThumbnailOf(row) == IF row.thumb THEN "thumbnail" ELSE "null"

\* a row of a listing query as a SavedMagicItem (fetchItemsFromDatabase)
ListItem(row) == [id |-> row.id, name |-> row.name, imageUrl |-> ThumbnailOf(row),
                  imagePrompt |-> "", itemCard |-> ""]

ListItems(rows) == [i \in DOMAIN rows |-> ListItem(rows[i])]

LightweightWhole(items) == items

\* setCachedItems: the lightweight projection that is serialized
Lightweight(items) ==
    [i \in DOMAIN items |-> [id |-> items[i].id, name |-> items[i].name,
                             imageUrl |-> items[i].imageUrl]]

\* getCachedItems: cached projections restored to SavedMagicItem
Restore(cached) ==
    [i \in DOMAIN cached |-> [id |-> cached[i].id, name |-> cached[i].name,
                              imageUrl |-> IF "imageUrl" \in DOMAIN cached[i]
                                           THEN cached[i].imageUrl ELSE "null",
                              imagePrompt |-> "", itemCard |-> ""]]

ExpiredAtDuration(age) == age >= CACHE_DURATION

\* age > CACHE_DURATION
Expired(age) == age > CACHE_DURATION

\* getCachedItems(): the value returned (hit, list) and the keys it leaves
getCachedItems(items, ts, t) ==
    IF items.kind = "null" \/ ts = NoTimestamp
    THEN [hit |-> FALSE, list |-> <<>>, items |-> items, ts |-> ts]
    ELSE IF Expired(t - ts)
    THEN [hit |-> FALSE, list |-> <<>>, items |-> NoValue, ts |-> NoTimestamp]
    ELSE [hit |-> TRUE, list |-> Restore(items.val), items |-> items, ts |-> ts]

\* limit ? cached.slice(0, limit) : cached
Slice(cached, limit) == IF limit # 0 THEN Take(cached, limit) ELSE cached

\* the rows a listing query returns: newest first, at most limit || 100
QueryRows(rows, limit) == Take(rows, IF limit # 0 THEN limit ELSE DefaultQueryLimit)

\* String.prototype.toLowerCase over the characters used
ToLower(str) == [i \in DOMAIN str |-> IF str[i] = "D" THEN "d" ELSE str[i]]

\* String.prototype.includes
Includes(str, q) == \E i \in 0..(Len(str) - Len(q)) : SubSeq(str, i + 1, i + Len(q)) = q

\* the filter of searchSavedItems
Matches(name, query) == Includes(ToLower(name), ToLower(query))

\* column lists of the store requests
ListColumns == {"id", "created_at", "item_data", "thumbnail_url"}
DetailColumns == {"id", "created_at", "item_data", "image_prompt", "item_card", "image_url"}
AllColumns == DetailColumns \cup {"thumbnail_url"}

\* const fieldToSelect = useThumbnails ? 'id, thumbnail_url' : 'id, image_url'
FieldToSelect(useThumbnails) ==
    IF useThumbnails THEN {"id", "thumbnail_url"} ELSE {"id", "image_url"}

NoQuery == [op |-> "none", columns |-> {}, point |-> FALSE, view |-> "none", id |-> 0]

NoRead == [made |-> FALSE, op |-> "none", items |-> <<>>, fromCache |-> FALSE,
           ok |-> TRUE, raised |-> FALSE, stale |-> FALSE, cached |-> FALSE]

NoListCall == [made |-> FALSE, op |-> "none", limit |-> 0,
               entry |-> FALSE, cached |-> <<>>, age |-> 0, hit |-> FALSE,
               returned |-> <<>>, keysAfter |-> FALSE, fetches |-> FALSE,
               afterMutation |-> FALSE, refilled |-> FALSE,
               caller |-> "none", query |-> <<>>]

NoDone == [made |-> FALSE, op |-> "none", ok |-> FALSE, raised |-> FALSE,
           hadEntry |-> FALSE, keysAbsent |-> FALSE, derives |-> FALSE]

\* generateThumbnail (src/services/imageUtils.ts)
NoThumbnail == [made |-> FALSE, width |-> 0, height |-> 0, maxWidth |-> 0, maxHeight |-> 0,
                canvas |-> [width |-> 0, height |-> 0]]

\* App state (src/App.tsx)
NoResult == [kind |-> "null", image |-> FALSE]

\* useState(false), useState(null), useState(null), useState([])
AppIdle ==
    /\ genPc = "idle"
    /\ isGenerating = FALSE
    /\ result = NoResult
    /\ error = "null"
    /\ recentItems = <<>>
    /\ events = <<>>
    /\ savedWith = NoResult
    /\ attempts = 0
    /\ thumbnail = NoThumbnail

\* the storage service before any of its operations is used
CacheIdle ==
    /\ supabaseUrl = ConfiguredUrl
    /\ store = <<>>
    /\ nextId = 1
    /\ cacheItems = NoValue
    /\ cacheTs = NoTimestamp
    /\ cacheStale = FALSE
    /\ invalEpoch = 0
    /\ tasks = EmptyBag
    /\ nextTask = 1
    /\ lastQuery = NoQuery
    /\ lastCall = NoListCall
    /\ lastRead = NoRead
    /\ lastDone = NoDone
    /\ mutated = FALSE
    /\ refilled = FALSE

\* the call made before the latest one, as the observer keeps it
NoEarlierCall == [made |-> FALSE, at |-> 0, allowed |-> TRUE, retryAfterSeconds |-> 0]

NoCall == [made |-> FALSE, at |-> 0, before |-> NoValue, result |-> Allowed(NoValue),
           hasWindow |-> TRUE, getThrows |-> FALSE, setThrows |-> FALSE,
           streak |-> <<>>, prev |-> NoEarlierCall]

\* the observer's record of the latest allowed calls in a row
Remember(streak, t) ==
    IF Len(streak) < MAX_GENERATIONS_PER_MINUTE THEN Append(streak, t)
    ELSE Append(Tail(streak), t)

\* One call of checkClientRateLimit at clock reading t
Call(t, hasWindow, getThrows, setThrows) ==
    LET r == checkClientRateLimit(rlRaw, t, hasWindow, getThrows, setThrows)
    IN  /\ now' = t
        /\ rlRaw' = r.stored
        /\ rlCalls' = rlCalls + 1
        /\ rlFirstAt' = IF rlCalls = 0 THEN t ELSE rlFirstAt
        /\ rlAllowedAt' = IF r.allowed THEN Remember(rlAllowedAt, t) ELSE <<>>
        /\ rlLast' = [made |-> TRUE, at |-> t, before |-> rlRaw, result |-> r,
                      hasWindow |-> hasWindow, getThrows |-> getThrows,
                      setThrows |-> setThrows, streak |-> rlAllowedAt,
                      prev |-> [made |-> rlLast.made, at |-> rlLast.at,
                                allowed |-> rlLast.result.allowed,
                                retryAfterSeconds |-> rlLast.result.retryAfterSeconds]]
        /\ UNCHANGED <<cacheVars, appVars>>

\* ------------------------------------------------------------------------
\* SpecRL: empty log, working storage, non-decreasing clock
\* ------------------------------------------------------------------------
InitRL ==
    /\ now = 0
    /\ rlRaw = NoValue
    /\ rlCalls = 0
    /\ rlFirstAt = -1
    /\ rlAllowedAt = <<>>
    /\ rlLast = NoCall
    /\ CacheIdle
    /\ AppIdle

CheckClientRateLimit ==
    /\ rlCalls < MaxCalls
    /\ \E d \in ClockSteps : Call(now + d, TRUE, FALSE, FALSE)

NextRL == CheckClientRateLimit

SpecRL == InitRL /\ [][NextRL]_vars

\* ------------------------------------------------------------------------
\* SpecRLAny: whatever value the key holds when the page loads (a list of
\* timestamps in any order, some later than the clock; text that is not
\* JSON; JSON that is not a list), with storage faults
\* ------------------------------------------------------------------------
Stamps == {NowBase - 60000, NowBase - 59999, NowBase - 30500, NowBase + 5000}

SeqsUpTo(S, n) == UNION {[1..k -> S] : k \in 0..n}

RawValues == {NoValue, EmptyString, Garbage, NonList}
             \cup {JSONstringify(l) : l \in SeqsUpTo(Stamps, MaxRawLen)}

AnySteps == {0, 999}

InitRLAny ==
    /\ now = NowBase
    /\ rlRaw \in RawValues
    /\ rlCalls = 0
    /\ rlFirstAt = -1
    /\ rlAllowedAt = <<>>
    /\ rlLast = NoCall
    /\ CacheIdle
    /\ AppIdle

CheckClientRateLimitAny ==
    /\ rlCalls < MaxAnyCalls
    /\ \E d \in AnySteps, hasWindow \in BOOLEAN, getThrows \in BOOLEAN, setThrows \in BOOLEAN :
          Call(now + d, hasWindow, getThrows, setThrows)

NextRLAny == CheckClientRateLimitAny

SpecRLAny == InitRLAny /\ [][NextRLAny]_vars

\* ------------------------------------------------------------------------
\* SpecCache: the storage service.  Every await on the store is a
\* suspension point: a request is sent by the operation, answered by the
\* store, and its continuation runs later, in any order with the others.
\* ------------------------------------------------------------------------
NoArg == [id |-> 0, name |-> <<>>, image |-> FALSE, thumb |-> FALSE]

\* a request in flight and what its continuation needs; dataEpoch is the
\* number of invalidations that preceded the store's answer
Task(kind, op, limit, query, arg) ==
    [kind |-> kind, op |-> op, phase |-> "sent", limit |-> limit,
     query |-> query, arg |-> arg, ok |-> FALSE, rows |-> <<>>,
     dataEpoch |-> 0, found |-> <<>>, derives |-> FALSE]

\* a request can be sent
CanSend == BagCardinality(tasks) < MaxInflight

Spawn(t) == tasks (+) SetToBag({t})
Drop(t) == tasks (-) SetToBag({t})
Replace(t, u) == (tasks (-) SetToBag({t})) (+) SetToBag({u})

ListQuery(view) == [op |-> "list", columns |-> ListColumns, point |-> FALSE, view |-> view,
                   id |-> 0]

KeysAbsent(items, ts) == items = NoValue /\ ts = NoTimestamp

invalidateCacheTimestampOnly(items, ts) == [items |-> items, ts |-> NoTimestamp]

\* invalidateCache(): both keys removed
invalidateCache(items, ts) == [items |-> NoValue, ts |-> NoTimestamp]

\* localStorage.removeItem raising: at neither call, the first, the second
RemoveFaults == {"none", "first", "second"}

invalidateCacheRethrows(items, ts, fault) ==
    [items |-> IF fault = "first" THEN items ELSE NoValue,
     ts |-> IF fault = "none" THEN NoTimestamp ELSE ts,
     raised |-> fault # "none"]

\* invalidateCache() over a storage that may raise: try { removeItem(items);
\* removeItem(timestamp) } catch { console.warn }
invalidateCacheTry(items, ts, fault) ==
    [items |-> IF fault = "first" THEN items ELSE invalidateCache(items, ts).items,
     ts |-> IF fault = "none" THEN invalidateCache(items, ts).ts ELSE ts,
     raised |-> FALSE]

\* 4 * 1024 * 1024
MaxCacheBytes == 4 * 1024 * 1024

\* sizes of the serialized list, in bytes
Sizes == {MaxCacheBytes, MaxCacheBytes + 1}

\* if (cacheSize > 4 * 1024 * 1024) { console.warn(...); return }
TooLarge(size) == size > MaxCacheBytes

\* items.slice(0, 50)
RetryItems == 50

\* what localStorage.setItem does in the first attempt: both writes work,
\* or the write of the items key or of the timestamp key throws, a
\* QuotaExceededError or something else
WriteFaults == {"none", "quotaItems", "quotaTimestamp", "otherItems", "otherTimestamp"}

\* ... and in the retry
RetryFaults == {"none", "items", "timestamp"}

QuotaFaults == {"quotaItems", "quotaTimestamp"}

LimitedItemsAll(list) == [i \in DOMAIN list |-> [id |-> list[i].id, name |-> list[i].name]]

\* items.slice(0, 50).map(item => ({ id, created_at, savedAt, itemData }))
LimitedItems(list) ==
    [i \in 1..Min(RetryItems, Len(list)) |-> [id |-> list[i].id, name |-> list[i].name]]

\* setCachedItems(list) at clock reading t over a storage whose setItem may
\* throw; size: the bytes of the serialized list
setCachedItemsTry(items, ts, list, t, size, first, retry) ==
    LET cacheData == JSONstringify(Lightweight(list))
    IN  IF TooLarge(size) THEN [items |-> items, ts |-> ts, raised |-> FALSE]
        ELSE CASE first = "none" -> [items |-> cacheData, ts |-> t, raised |-> FALSE]
               [] first = "otherItems" -> [items |-> items, ts |-> ts, raised |-> FALSE]
               [] first = "otherTimestamp" -> [items |-> cacheData, ts |-> ts, raised |-> FALSE]
               [] first \in QuotaFaults ->
                    CASE retry = "none" ->
                           [items |-> JSONstringify(LimitedItems(list)), ts |-> t,
                            raised |-> FALSE]
                      [] retry = "items" ->
                           [items |-> NoValue, ts |-> NoTimestamp, raised |-> FALSE]
                      [] retry = "timestamp" ->
                           [items |-> JSONstringify(LimitedItems(list)), ts |-> NoTimestamp,
                            raised |-> FALSE]

\* setCachedItems(list) at clock reading t, the list small enough and the
\* storage working: both keys written
setCachedItems(items, ts, list, t) ==
    LET w == setCachedItemsTry(items, ts, list, t, MaxCacheBytes, "none", "none")
    IN  [items |-> w.items, ts |-> w.ts]

ReadRaisesOnError(storeOk) == ~storeOk

\* if (error) { console.error(...); return [] } and catch { return [] }
\* (return null in getItemById): a read does not raise
ReadRaises(storeOk) == FALSE

\* what a read operation hands to its caller; ok: the store answered the
\* request the result is taken from without an error; stale: the items were read
\* from the store before an invalidation that preceded the call;
\* cached: the cache holds exactly these items, written now
Returned(op, items, fromCache, ok, stale, cached) ==
    [made |-> TRUE, op |-> op, items |-> items, fromCache |-> fromCache, ok |-> ok,
     raised |-> ReadRaises(ok), stale |-> stale, cached |-> cached]

\* how a getSavedItems / searchSavedItems call found the cache at time t
Looked(op, caller, query, limit, c, hit, returned, t) ==
    LET entry == cacheItems.kind # "null" /\ cacheTs # NoTimestamp
    IN  [made |-> TRUE, op |-> op, limit |-> limit,
         entry |-> entry,
         cached |-> IF entry THEN Restore(cacheItems.val) ELSE <<>>,
         age |-> IF entry THEN t - cacheTs ELSE 0,
         hit |-> hit,
         returned |-> returned,
         keysAfter |-> ~KeysAbsent(c.items, c.ts),
         fetches |-> ~hit,
         afterMutation |-> mutated,
         refilled |-> refilled,
         caller |-> caller,
         query |-> query]

\* the values Date.now() may return next: the clock does not go back
Readings == {now} \cup {now + d : d \in {e \in CacheSteps : now + e <= MaxCacheNow}}

\* the body of getSavedItems(limit), also reached from searchSavedItems
\* with a blank query; t is the reading of Date.now() in getCachedItems
GetSavedItemsBody(op, query, limit, t) ==
    IF ~configured
    THEN /\ lastRead' = Returned(op, <<>>, FALSE, TRUE, FALSE, FALSE)
         /\ UNCHANGED <<cacheItems, cacheTs, tasks, lastQuery, lastCall, mutated, refilled>>
    ELSE LET c == getCachedItems(cacheItems, cacheTs, t)
         IN  /\ cacheItems' = c.items
             /\ cacheTs' = c.ts
             /\ tasks' = Spawn(Task(IF c.hit THEN "refresh" ELSE "get", op, limit, <<>>, NoArg))
             /\ lastQuery' = ListQuery(op)
             /\ lastCall' = Looked("getSavedItems", op, query, limit, c, c.hit,
                                   Slice(c.list, limit), t)
             /\ lastRead' = IF c.hit
                            THEN Returned(op, Slice(c.list, limit), TRUE, TRUE, cacheStale, FALSE)
                            ELSE lastRead
             /\ mutated' = FALSE
             /\ refilled' = FALSE

GetSavedItems ==
    /\ nextTask <= MaxOps
    /\ CanSend
    /\ \E limit \in Limits, t \in Readings :
         /\ GetSavedItemsBody("getSavedItems", <<>>, limit, t)
         /\ now' = t
    /\ nextTask' = nextTask + 1
    /\ UNCHANGED <<rlVars, appVars, supabaseUrl, store, nextId, cacheStale, invalEpoch, lastDone>>

TrimNothing(query) == query

\* query.trim(): leading and trailing white space removed
Trim(query) ==
    LET inked == {i \in DOMAIN query : query[i] # " "}
    IN  IF inked = {} THEN <<>>
        ELSE SubSeq(query, CHOOSE i \in inked : \A j \in inked : i <= j,
                           CHOOSE i \in inked : \A j \in inked : i >= j)

SearchSavedItems ==
    /\ nextTask <= MaxOps
    /\ CanSend
    /\ \E query \in Queries, t \in Readings :
         /\ now' = t
         /\ IF ~configured \/ Trim(query) = <<>>
            THEN GetSavedItemsBody("searchSavedItems", query, 0, t)
            ELSE LET c == getCachedItems(cacheItems, cacheTs, t)
                     warm == c.hit /\ Len(c.list) > 0
                     filtered == SelectSeq(c.list, LAMBDA item : Matches(item.name, query))
                 IN  /\ cacheItems' = c.items
                     /\ cacheTs' = c.ts
                     /\ tasks' = Spawn(IF warm
                                       THEN Task("refresh", "searchSavedItems", 0, <<>>, NoArg)
                                       ELSE Task("search", "searchSavedItems", 0, query, NoArg))
                     /\ lastQuery' = ListQuery("searchSavedItems")
                     /\ lastCall' = Looked("searchSavedItems", "searchSavedItems", query, 0, c, warm,
                                           IF warm THEN filtered ELSE <<>>, t)
                     /\ lastRead' = IF warm
                                    THEN Returned("searchSavedItems", filtered, TRUE, TRUE,
                                                  cacheStale, FALSE)
                                    ELSE lastRead
                     /\ UNCHANGED <<mutated, refilled>>
    /\ nextTask' = nextTask + 1
    /\ UNCHANGED <<rlVars, appVars, supabaseUrl, store, nextId, cacheStale, invalEpoch, lastDone>>

ThumbnailAlways(hasImage, derives) == TRUE

\* let thumbnailUrl = null; if (item.imageUrl) { try { thumbnailUrl = await
\* generateThumbnail(...) } catch { } }: whether thumbnail_url is non-null
ThumbnailFor(hasImage, derives) == hasImage /\ derives

\* the body of saveItem(item) up to the insert; derives: generateThumbnail
\* resolves
SaveItemBody(item, derives) ==
    IF ~configured
    THEN /\ lastDone' = [made |-> TRUE, op |-> "saveItem", ok |-> FALSE, raised |-> FALSE,
                         hadEntry |-> ~KeysAbsent(cacheItems, cacheTs),
                         keysAbsent |-> KeysAbsent(cacheItems, cacheTs),
                         derives |-> FALSE]
         /\ UNCHANGED <<tasks, lastQuery>>
    ELSE /\ tasks' = Spawn([Task("save", "saveItem", 0, <<>>,
                                 [id |-> 0, name |-> item.name, image |-> item.image,
                                  thumb |-> ThumbnailFor(item.image, derives)])
                              EXCEPT !.derives = derives])
         /\ lastQuery' = [op |-> "insert", columns |-> AllColumns, point |-> TRUE,
                          view |-> "saveItem", id |-> 0]
         /\ UNCHANGED lastDone

SaveItem ==
    /\ nextTask <= MaxOps
    /\ CanSend
    /\ \E item \in Templates, thumbOk \in BOOLEAN : SaveItemBody(item, thumbOk)
    /\ nextTask' = nextTask + 1
    /\ UNCHANGED <<now, rlVars, appVars, supabaseUrl, store, nextId, cacheItems, cacheTs, cacheStale,
                   invalEpoch, lastCall, lastRead, mutated, refilled>>

\* removeItem(id): the delete is sent
RemoveItem ==
    /\ nextTask <= MaxOps
    /\ CanSend
    /\ \E id \in 1..(nextId - 1) :
         IF ~configured
         THEN /\ lastDone' = [made |-> TRUE, op |-> "removeItem", ok |-> FALSE, raised |-> FALSE,
                              hadEntry |-> ~KeysAbsent(cacheItems, cacheTs),
                              keysAbsent |-> KeysAbsent(cacheItems, cacheTs),
                              derives |-> FALSE]
              /\ UNCHANGED <<tasks, lastQuery>>
         ELSE /\ tasks' = Spawn(Task("remove", "removeItem", 0, <<>>, [NoArg EXCEPT !.id = id]))
              /\ lastQuery' = [op |-> "delete", columns |-> {}, point |-> TRUE,
                               view |-> "removeItem", id |-> id]
              /\ UNCHANGED lastDone
    /\ nextTask' = nextTask + 1
    /\ UNCHANGED <<now, rlVars, appVars, supabaseUrl, store, nextId, cacheItems, cacheTs, cacheStale,
                   invalEpoch, lastCall, lastRead, mutated, refilled>>

\* the store answers a select: the rows as they are at that moment, or an error
StoreAnswers ==
    \E t \in BagToSet(tasks), ok \in BOOLEAN :
        /\ t.phase = "sent"
        /\ t.kind \in {"get", "refresh", "search", "searchFetch"}
        /\ tasks' = Replace(t, [t EXCEPT !.phase = "answered", !.ok = ok,
                                         !.rows = IF ok THEN QueryRows(store, t.limit) ELSE <<>>,
                                         !.dataEpoch = invalEpoch])
        /\ UNCHANGED <<now, rlVars, appVars, supabaseUrl, store, nextId, cacheItems, cacheTs, cacheStale,
                       invalEpoch, nextTask, lastQuery, lastCall, lastRead, lastDone,
                       mutated, refilled>>

\* the store applies an insert or a delete, or reports an error
StoreWrites ==
    \E t \in BagToSet(tasks), ok \in BOOLEAN :
        /\ t.phase = "sent"
        /\ t.kind \in {"save", "remove"}
        /\ tasks' = Replace(t, [t EXCEPT !.phase = "answered", !.ok = ok])
        /\ IF ~ok THEN UNCHANGED <<store, nextId>>
           ELSE IF t.kind = "save"
           THEN /\ store' = <<[t.arg EXCEPT !.id = nextId]>> \o store
                /\ nextId' = nextId + 1
           ELSE /\ store' = SelectSeq(store, LAMBDA row : row.id # t.arg.id)
                /\ UNCHANGED nextId
        /\ UNCHANGED <<now, rlVars, appVars, supabaseUrl, cacheItems, cacheTs, cacheStale,
                       invalEpoch, nextTask, lastQuery, lastCall, lastRead, lastDone,
                       mutated, refilled>>

SurfacesAlways(kind) == TRUE

\* whether the caller is handed what the fetch produced: getSavedItems
\* awaits fetchItemsFromDatabase ("get"), refreshItemsInBackground calls it
\* without await and logs a rejection ("refresh")
Surfaces(kind) == kind = "get"

\* fetchItemsFromDatabase resumes after await query (foreground fetch of
\* getSavedItems, or the fetch of refreshItemsInBackground)
FetchResumes ==
    \E t \in BagToSet(tasks), at \in Readings :
        /\ t.phase = "answered"
        /\ t.kind \in {"get", "refresh"}
        /\ t.ok \/ at = now
        /\ now' = at
        /\ LET items == ListItems(t.rows)
               c == IF t.ok THEN setCachedItems(cacheItems, cacheTs, items, at)
                    ELSE [items |-> cacheItems, ts |-> cacheTs]
           IN  /\ cacheItems' = c.items
               /\ cacheTs' = c.ts
               /\ cacheStale' = IF t.ok THEN t.dataEpoch < invalEpoch ELSE cacheStale
               /\ refilled' = (t.ok \/ refilled)
               /\ lastRead' = IF Surfaces(t.kind)
                              THEN Returned(t.op, items, FALSE, t.ok, FALSE,
                                            c.items = JSONstringify(Lightweight(items))
                                               /\ c.ts = at)
                              ELSE lastRead
        /\ tasks' = Drop(t)
        /\ UNCHANGED <<rlVars, appVars, supabaseUrl, store, nextId, invalEpoch, nextTask,
                       lastQuery, lastCall, lastDone, mutated>>

\* searchSavedItems resumes after its own select: filter the rows, then
\* await fetchItemsFromDatabase()
SearchResumes ==
    \E t \in BagToSet(tasks) :
        /\ t.phase = "answered"
        /\ t.kind = "search"
        /\ IF ~t.ok
           THEN /\ tasks' = Drop(t)
                /\ lastRead' = Returned(t.op, <<>>, FALSE, FALSE, FALSE, FALSE)
                /\ UNCHANGED lastQuery
           ELSE /\ tasks' = Replace(t, [t EXCEPT !.kind = "searchFetch", !.phase = "sent",
                                        !.ok = FALSE, !.rows = <<>>, !.dataEpoch = 0,
                                        !.found = ListItems(SelectSeq(t.rows,
                                                     LAMBDA row : Matches(row.name, t.query)))])
                /\ lastQuery' = ListQuery("searchSavedItems")
                /\ UNCHANGED lastRead
        /\ UNCHANGED <<now, rlVars, appVars, supabaseUrl, store, nextId, cacheItems, cacheTs, cacheStale,
                       invalEpoch, nextTask, lastCall, lastDone, mutated, refilled>>

\* searchSavedItems resumes after fetchItemsFromDatabase(): that function
\* caches its rows (or returns [] on error), then setCachedItems(allItems)
SearchReturns ==
    \E t \in BagToSet(tasks), at \in Readings :
        /\ t.phase = "answered"
        /\ t.kind = "searchFetch"
        /\ now' = at
        /\ LET allItems == IF t.ok THEN ListItems(t.rows) ELSE <<>>
               c == setCachedItems(cacheItems, cacheTs, allItems, at)
           IN  /\ cacheItems' = c.items
               /\ cacheTs' = c.ts
               /\ cacheStale' = (t.dataEpoch < invalEpoch)
               /\ refilled' = TRUE
               /\ lastRead' = Returned(t.op, t.found, FALSE, TRUE, FALSE, FALSE)
        /\ tasks' = Drop(t)
        /\ UNCHANGED <<rlVars, appVars, supabaseUrl, store, nextId, invalEpoch, nextTask,
                       lastQuery, lastCall, lastDone, mutated>>

WriteNeverRaises(storeOk) == FALSE

\* if (error) { ...; throw new Error('Failed to ...') }, rethrown by the catch
WriteRaises(storeOk) == ~storeOk

\* saveItem / removeItem resume after the write: raise on error, otherwise
\* invalidateCache() and return
MutationResumes ==
    \E t \in BagToSet(tasks) :
        /\ t.phase = "answered"
        /\ t.kind \in {"save", "remove"}
        /\ LET c == IF t.ok THEN invalidateCache(cacheItems, cacheTs)
                    ELSE [items |-> cacheItems, ts |-> cacheTs]
           IN  /\ cacheItems' = c.items
               /\ cacheTs' = c.ts
               /\ cacheStale' = IF t.ok THEN FALSE ELSE cacheStale
               /\ invalEpoch' = IF t.ok THEN invalEpoch + 1 ELSE invalEpoch
               /\ lastDone' = [made |-> TRUE, op |-> t.op, ok |-> t.ok,
                               raised |-> WriteRaises(t.ok),
                               hadEntry |-> ~KeysAbsent(cacheItems, cacheTs),
                               keysAbsent |-> KeysAbsent(c.items, c.ts),
                               derives |-> t.derives]
               /\ mutated' = (t.ok \/ mutated)
               /\ refilled' = IF t.ok THEN FALSE ELSE refilled
        /\ tasks' = Drop(t)
        /\ UNCHANGED <<now, rlVars, appVars, supabaseUrl, store, nextId, nextTask,
                       lastQuery, lastCall, lastRead>>

\* invalidateCache() called on its own
InvalidateCache ==
    /\ nextTask <= MaxOps
    /\ LET c == invalidateCache(cacheItems, cacheTs)
       IN  /\ cacheItems' = c.items
           /\ cacheTs' = c.ts
    /\ cacheStale' = FALSE
    /\ invalEpoch' = invalEpoch + 1
    /\ nextTask' = nextTask + 1
    /\ UNCHANGED <<now, rlVars, appVars, supabaseUrl, store, nextId, tasks,
                   lastQuery, lastCall, lastRead, lastDone, mutated, refilled>>

\* getItemById(id): the point lookup of the detail view
GetItemById ==
    /\ nextTask <= MaxOps
    /\ \E id \in 1..nextId, ok \in BOOLEAN :
         LET rows == SelectSeq(store, LAMBDA row : row.id = id)
             found == IF ok /\ rows # <<>>
                      THEN <<[id |-> id, name |-> rows[1].name,
                              imageUrl |-> IF rows[1].image THEN "full" ELSE "null",
                              imagePrompt |-> "prompt", itemCard |-> "card"]>>
                      ELSE <<>>
         IN  IF ~configured
             THEN /\ lastRead' = Returned("getItemById", <<>>, FALSE, TRUE, FALSE, FALSE)
                  /\ UNCHANGED lastQuery
             ELSE /\ lastQuery' = [op |-> "getItemById", columns |-> DetailColumns,
                                   point |-> TRUE, view |-> "detail", id |-> id]
                  /\ lastRead' = Returned("getItemById", found, FALSE, ok, FALSE, FALSE)
    /\ nextTask' = nextTask + 1
    /\ UNCHANGED <<now, rlVars, appVars, supabaseUrl, store, nextId, cacheItems, cacheTs, cacheStale,
                   invalEpoch, tasks, lastCall, lastDone, mutated, refilled>>

\* a list view loads images for the items it was handed:
\* getItemImageUrls(ids) in RecentItems and SavedItems, and
\* getItemImageUrls(batch, false) for listed items that have no thumbnail
ListViewLoadsImages ==
    /\ nextTask <= MaxOps
    /\ lastRead.made
    /\ lastRead.op \in {"getSavedItems", "searchSavedItems"}
    /\ lastRead.items # <<>>
    /\ \E useThumbnails \in BOOLEAN :
         /\ ~useThumbnails =>
               /\ lastRead.op = "getSavedItems"
               /\ \E i \in DOMAIN lastRead.items : lastRead.items[i].imageUrl = "null"
         /\ IF ~configured
            THEN /\ lastRead' = Returned("getItemImageUrls", <<>>, FALSE, TRUE, FALSE, FALSE)
                 /\ UNCHANGED lastQuery
            ELSE /\ lastQuery' = [op |-> "getItemImageUrls",
                                  columns |-> FieldToSelect(useThumbnails),
                                  point |-> FALSE, view |-> "list", id |-> 0]
                 /\ UNCHANGED lastRead
    /\ nextTask' = nextTask + 1
    /\ UNCHANGED <<now, rlVars, appVars, supabaseUrl, store, nextId, cacheItems, cacheTs, cacheStale,
                   invalEpoch, tasks, lastCall, lastDone, mutated, refilled>>

\* the rows the table holds when the page is loaded
InitialRows == << [id |-> 2, name |-> <<"w">>, image |-> FALSE, thumb |-> FALSE],
                 [id |-> 1, name |-> <<"D", "w">>, image |-> TRUE, thumb |-> TRUE] >>

InitCache ==
    /\ now = 0
    /\ rlRaw = NoValue
    /\ rlCalls = 0
    /\ rlFirstAt = -1
    /\ rlAllowedAt = <<>>
    /\ rlLast = NoCall
    /\ supabaseUrl \in {ConfiguredUrl, PlaceholderUrl}
    /\ store = InitialRows
    /\ nextId = Len(InitialRows) + 1
    /\ cacheItems = NoValue
    /\ cacheTs = NoTimestamp
    /\ cacheStale = FALSE
    /\ invalEpoch = 0
    /\ tasks = EmptyBag
    /\ nextTask = 1
    /\ lastQuery = NoQuery
    /\ lastCall = NoListCall
    /\ lastRead = NoRead
    /\ lastDone = NoDone
    /\ mutated = FALSE
    /\ refilled = FALSE
    /\ AppIdle

NextCache ==
    \/ GetSavedItems
    \/ SearchSavedItems
    \/ SaveItem
    \/ RemoveItem
    \/ InvalidateCache
    \/ StoreAnswers
    \/ StoreWrites
    \/ FetchResumes
    \/ SearchResumes
    \/ SearchReturns
    \/ MutationResumes

SpecCache == InitCache /\ [][NextCache]_vars

\* ------------------------------------------------------------------------
\* SpecViews: the requests the views send to the store.  The list views
\* read with getSavedItems / searchSavedItems and then load images for the
\* items they were handed; the detail view looks one item up.  These
\* lookups leave the cache keys alone, so SpecCache omits them.
\* ------------------------------------------------------------------------
NextViews ==
    \/ GetSavedItems
    \/ SearchSavedItems
    \/ StoreAnswers
    \/ FetchResumes
    \/ SearchResumes
    \/ SearchReturns
    \/ GetItemById
    \/ ListViewLoadsImages

SpecViews == InitCache /\ [][NextViews]_vars

\* ------------------------------------------------------------------------
\* SpecConfig: the storage service while VITE_SUPABASE_URL takes any of its
\* values between two calls.
\* ------------------------------------------------------------------------
\* the environment gives the variable another value
EnvChanges ==
    /\ nextTask <= MaxOps
    /\ \E url \in Urls \ {supabaseUrl} : supabaseUrl' = url
    /\ nextTask' = nextTask + 1
    /\ UNCHANGED <<now, rlVars, appVars, store, nextId, cacheItems, cacheTs, cacheStale,
                   invalEpoch, tasks, lastQuery, lastCall, lastRead, lastDone,
                   mutated, refilled>>

NextConfig ==
    \/ EnvChanges
    \/ GetSavedItems
    \/ SearchSavedItems
    \/ SaveItem
    \/ RemoveItem
    \/ GetItemById
    \/ ListViewLoadsImages
    \/ StoreAnswers
    \/ StoreWrites
    \/ FetchResumes
    \/ SearchResumes
    \/ SearchReturns
    \/ MutationResumes

SpecConfig == InitCache /\ [][NextConfig]_vars

\* ------------------------------------------------------------------------
\* SpecInval: invalidateCache() called in any cache state, over a storage
\* whose removeItem may raise.
\* ------------------------------------------------------------------------
InvalidateCacheAny ==
    /\ nextTask <= MaxOps
    /\ \E fault \in RemoveFaults :
         LET c == invalidateCacheTry(cacheItems, cacheTs, fault)
         IN  /\ cacheItems' = c.items
             /\ cacheTs' = c.ts
             /\ cacheStale' = IF c.items = NoValue THEN FALSE ELSE cacheStale
             /\ lastDone' = [made |-> TRUE, op |-> "invalidateCache", ok |-> fault = "none",
                             raised |-> c.raised,
                             hadEntry |-> ~KeysAbsent(cacheItems, cacheTs),
                             keysAbsent |-> KeysAbsent(c.items, c.ts),
                             derives |-> FALSE]
    /\ invalEpoch' = invalEpoch + 1
    /\ nextTask' = nextTask + 1
    /\ UNCHANGED <<now, rlVars, appVars, supabaseUrl, store, nextId, tasks,
                   lastQuery, lastCall, lastRead, mutated, refilled>>

NextInval ==
    \/ InvalidateCacheAny
    \/ GetSavedItems
    \/ StoreAnswers
    \/ FetchResumes

SpecInval == InitCache /\ [][NextInval]_vars

\* ------------------------------------------------------------------------
\* SpecWrite: the cache write of fetchItemsFromDatabase over a storage
\* whose setItem may throw, with lists of any size, the table holding two
\* rows or more than the retry keeps.
\* ------------------------------------------------------------------------
ManyRows == [i \in 1..MaxRows |-> [id |-> MaxRows + 1 - i, name |-> <<"w">>,
                                    image |-> TRUE, thumb |-> TRUE]]

\* fetchItemsFromDatabase resumes after await query and calls
\* setCachedItems(items)
FetchWrites ==
    \E t \in BagToSet(tasks), at \in Readings, size \in Sizes,
       first \in WriteFaults, retry \in RetryFaults :
        /\ t.phase = "answered"
        /\ t.kind \in {"get", "refresh"}
        /\ t.ok
        /\ first \notin QuotaFaults => retry = "none"
        /\ size > MaxCacheBytes => first = "none"
        /\ now' = at
        /\ LET items == ListItems(t.rows)
               c == setCachedItemsTry(cacheItems, cacheTs, items, at, size, first, retry)
           IN  /\ cacheItems' = c.items
               /\ cacheTs' = c.ts
               /\ lastDone' = [made |-> TRUE, op |-> "setCachedItems",
                               ok |-> first = "none" /\ ~TooLarge(size),
                               raised |-> c.raised,
                               hadEntry |-> ~KeysAbsent(cacheItems, cacheTs),
                               keysAbsent |-> KeysAbsent(c.items, c.ts),
                               derives |-> FALSE,
                               list |-> items, size |-> size, first |-> first,
                               retry |-> retry, at |-> at,
                               before |-> [items |-> cacheItems, ts |-> cacheTs],
                               after |-> [items |-> c.items, ts |-> c.ts]]
               /\ lastRead' = IF Surfaces(t.kind)
                              THEN Returned(t.op, items, FALSE, t.ok, FALSE,
                                            c.items = JSONstringify(Lightweight(items))
                                               /\ c.ts = at)
                              ELSE lastRead
        /\ tasks' = Drop(t)
        /\ UNCHANGED <<rlVars, appVars, supabaseUrl, store, nextId, cacheStale, invalEpoch,
                       nextTask, lastQuery, lastCall, mutated, refilled>>

\* the store answers a select with its rows
StoreReturnsRows ==
    \E t \in BagToSet(tasks) :
        /\ t.phase = "sent"
        /\ t.kind \in {"get", "refresh"}
        /\ tasks' = Replace(t, [t EXCEPT !.phase = "answered", !.ok = TRUE,
                                         !.rows = QueryRows(store, t.limit),
                                         !.dataEpoch = invalEpoch])
        /\ UNCHANGED <<now, rlVars, appVars, supabaseUrl, store, nextId, cacheItems, cacheTs,
                       cacheStale, invalEpoch, nextTask, lastQuery, lastCall, lastRead,
                       lastDone, mutated, refilled>>

InitWrite ==
    /\ now = 0
    /\ rlRaw = NoValue
    /\ rlCalls = 0
    /\ rlFirstAt = -1
    /\ rlAllowedAt = <<>>
    /\ rlLast = NoCall
    /\ supabaseUrl = ConfiguredUrl
    /\ store \in {InitialRows, ManyRows}
    /\ nextId = Len(store) + 1
    /\ cacheItems = NoValue
    /\ cacheTs = NoTimestamp
    /\ cacheStale = FALSE
    /\ invalEpoch = 0
    /\ tasks = EmptyBag
    /\ nextTask = 1
    /\ lastQuery = NoQuery
    /\ lastCall = NoListCall
    /\ lastRead = NoRead
    /\ lastDone = NoDone
    /\ mutated = FALSE
    /\ refilled = FALSE
    /\ AppIdle

NextWrite ==
    \/ GetSavedItems
    \/ StoreReturnsRows
    \/ FetchWrites

SpecWrite == InitWrite /\ [][NextWrite]_vars

\* ------------------------------------------------------------------------
\* SpecThumb: generateThumbnail applied to sources and bounds of any size.
\* ------------------------------------------------------------------------
CanvasSideUp(num, den) == Ceil(num, den)

\* canvas.width = x / canvas.height = x with x = num / den: the attribute
\* is an unsigned long, the fraction of the number assigned is dropped
CanvasSide(num, den) == num \div den

\* img.onload of generateThumbnail: the size of the canvas that is drawn
\* and encoded
ThumbnailSize(width, height, maxWidth, maxHeight) ==
    IF width > height
    THEN IF width > maxWidth
         THEN [width |-> CanvasSide(maxWidth, 1),
               height |-> CanvasSide(height * maxWidth, width)]
         ELSE [width |-> CanvasSide(width, 1), height |-> CanvasSide(height, 1)]
    ELSE IF height > maxHeight
         THEN [width |-> CanvasSide(width * maxHeight, height),
               height |-> CanvasSide(maxHeight, 1)]
         ELSE [width |-> CanvasSide(width, 1), height |-> CanvasSide(height, 1)]

\* generateThumbnail(base64Image, maxWidth, maxHeight, quality) on an image
\* of width x height pixels
GenerateThumbnail ==
    /\ \E width \in 1..MaxSide, height \in 1..MaxSide,
          maxWidth \in 1..MaxBound, maxHeight \in 1..MaxBound :
          thumbnail' = [made |-> TRUE, width |-> width, height |-> height,
                        maxWidth |-> maxWidth, maxHeight |-> maxHeight,
                        canvas |-> ThumbnailSize(width, height, maxWidth, maxHeight)]
    /\ UNCHANGED <<now, rlVars, cacheVars, genPc, isGenerating, result, error, recentItems,
                   events, savedWith, attempts>>

InitThumb == InitRL

NextThumb == GenerateThumbnail

SpecThumb == InitThumb /\ [][NextThumb]_vars

\* ------------------------------------------------------------------------
\* SpecGen: handleGenerate (src/App.tsx).  Each await is a suspension
\* point; saveItem and the reload of the recent items run through the
\* storage service above.
\* ------------------------------------------------------------------------
TextOutcomes == {"content", "requestError", "empty", "badJson"}
ImageOutcomes == {"image", "noData", "requestError"}

TextErrorSwallowed(outcome) == "null"

\* setError(err instanceof Error ? err.message : ...) for what
\* generateMagicItemText throws
TextError(outcome) ==
    CASE outcome = "empty" -> "No content generated from Gemini."
      [] outcome = "badJson" -> "Invalid JSON response from generator."
      [] outcome = "requestError" -> "request failed"
      [] OTHER -> "null"

NextStepAfterTextAlwaysImage(outcome) == "image"

\* where handleGenerate goes once generateMagicItemText settles
NextStepAfterText(outcome) == IF outcome = "content" THEN "image" ELSE "idle"

NextStepAfterImageFailureEnds(outcome) == IF outcome = "image" THEN "save" ELSE "idle"

\* where handleGenerate goes once generateMagicItemImage settles: the inner
\* catch swallows a failure
NextStepAfterImage(outcome) == "save"

\* finalResult = { ...content, imageUrl } or partialResult
FinalResult(partial, outcome) ==
    IF outcome = "image" THEN [partial EXCEPT !.image = TRUE] ELSE partial

GeneratingUntilSaved(pc) == pc \notin {"idle", "reload"}

\* isGenerating once the attempt is at pc: setIsGenerating(true) before the
\* try block, setIsGenerating(false) in its finally, after every await
GeneratingWhile(pc) == pc # "idle"

\* the generator's name for every item
ItemName == <<"D">>

InFlight(kinds) == \E t \in BagToSet(tasks) : t.kind \in kinds

\* handleGenerate up to await generateMagicItemText(settings)
HandleGenerate ==
    /\ genPc = "idle"
    /\ attempts < MaxAttempts
    /\ attempts' = attempts + 1
    /\ \E hasKey \in BOOLEAN :
         IF ~hasKey
         THEN /\ error' = "API Key is missing. The forge cannot operate without fuel."
              /\ events' = <<>>
              /\ UNCHANGED <<genPc, isGenerating, result>>
         ELSE /\ isGenerating' = GeneratingWhile("text")
              /\ error' = "null"
              /\ result' = NoResult
              /\ genPc' = "text"
              /\ events' = <<"text">>
    /\ UNCHANGED <<now, rlVars, cacheVars, recentItems, savedWith, thumbnail>>

\* generateMagicItemText settles
TextResponds ==
    /\ genPc = "text"
    /\ \E outcome \in TextOutcomes :
         LET next == NextStepAfterText(outcome)
         IN  /\ genPc' = next
             /\ result' = IF outcome = "content" THEN [kind |-> "item", image |-> FALSE]
                           ELSE result
             /\ error' = IF outcome = "content" THEN error ELSE TextError(outcome)
             /\ isGenerating' = GeneratingWhile(next)
             /\ events' = events \o <<IF outcome = "content" THEN "textOk" ELSE "textFailed">>
                                 \o (IF next = "image" THEN <<"image">> ELSE <<>>)
    /\ UNCHANGED <<now, rlVars, cacheVars, recentItems, savedWith, attempts, thumbnail>>

\* generateMagicItemImage settles; saveItem(finalResult) is called
ImageResponds ==
    /\ genPc = "image"
    /\ \E outcome \in ImageOutcomes, derives \in BOOLEAN :
         LET next == NextStepAfterImage(outcome)
             finalResult == FinalResult(result, outcome)
         IN  /\ genPc' = next
             /\ result' = finalResult
             /\ isGenerating' = GeneratingWhile(next)
             /\ events' = events \o <<IF outcome = "image" THEN "imageOk" ELSE "imageFailed">>
                                 \o (IF next = "save" THEN <<"save">> ELSE <<>>)
             /\ IF next = "save"
                THEN /\ savedWith' = finalResult
                     /\ SaveItemBody([name |-> ItemName, image |-> finalResult.image], derives)
                ELSE UNCHANGED <<savedWith, tasks, lastQuery, lastDone>>
    /\ UNCHANGED <<now, rlVars, supabaseUrl, store, nextId, cacheItems, cacheTs, cacheStale,
                   invalEpoch, nextTask, lastCall, lastRead, mutated, refilled,
                   error, recentItems, attempts, thumbnail>>

\* saveItem settles: if (saved) await loadRecentItems(), a raised error is
\* logged by the inner catch
SaveResponds ==
    /\ genPc = "save"
    /\ ~InFlight({"save"})
    /\ lastDone.made
    /\ IF lastDone.ok /\ ~lastDone.raised
       THEN /\ genPc' = "reload"
            /\ events' = events \o <<"saved", "list">>
            /\ GetSavedItemsBody("getSavedItems", <<>>, 6, now)
            /\ isGenerating' = GeneratingWhile("reload")
       ELSE /\ genPc' = "idle"
            /\ events' = events \o <<IF lastDone.raised THEN "saveFailed" ELSE "notSaved">>
            /\ isGenerating' = GeneratingWhile("idle")
            /\ UNCHANGED <<cacheItems, cacheTs, tasks, lastQuery, lastCall, lastRead,
                           mutated, refilled>>
    /\ UNCHANGED <<now, rlVars, supabaseUrl, store, nextId, cacheStale, invalEpoch, nextTask,
                   lastDone, result, error, recentItems, savedWith, attempts, thumbnail>>

\* getSavedItems(6) settles: setRecentItems(items), then finally
ReloadResponds ==
    /\ genPc = "reload"
    /\ ~InFlight({"get"})
    /\ lastRead.made
    /\ recentItems' = lastRead.items
    /\ genPc' = "idle"
    /\ isGenerating' = GeneratingWhile("idle")
    /\ events' = events \o <<"listed">>
    /\ UNCHANGED <<now, rlVars, cacheVars, result, error, savedWith, attempts, thumbnail>>

\* the page as loaded: the limiter's log empty or holding five entries of
\* the current minute
FullLog == JSONstringify([i \in 1..MAX_GENERATIONS_PER_MINUTE |-> NowBase - 1000])

InitGen ==
    /\ now = NowBase
    /\ rlRaw \in {NoValue, FullLog}
    /\ rlCalls = 0
    /\ rlFirstAt = -1
    /\ rlAllowedAt = <<>>
    /\ rlLast = NoCall
    /\ supabaseUrl \in {ConfiguredUrl, PlaceholderUrl}
    /\ store = InitialRows
    /\ nextId = Len(InitialRows) + 1
    /\ cacheItems = NoValue
    /\ cacheTs = NoTimestamp
    /\ cacheStale = FALSE
    /\ invalEpoch = 0
    /\ tasks = EmptyBag
    /\ nextTask = 1
    /\ lastQuery = NoQuery
    /\ lastCall = NoListCall
    /\ lastRead = NoRead
    /\ lastDone = NoDone
    /\ mutated = FALSE
    /\ refilled = FALSE
    /\ AppIdle

NextGen ==
    \/ HandleGenerate
    \/ TextResponds
    \/ ImageResponds
    \/ SaveResponds
    \/ ReloadResponds
    \/ StoreWrites
    \/ MutationResumes
    \/ StoreAnswers
    \/ FetchResumes

SpecGen == InitGen /\ [][NextGen]_vars

\* every request sent is answered, with a result or an error, and every
\* continuation whose await has settled is run by the event loop
FairGen ==
    /\ WF_vars(TextResponds)
    /\ WF_vars(ImageResponds)
    /\ WF_vars(SaveResponds)
    /\ WF_vars(ReloadResponds)
    /\ WF_vars(StoreWrites)
    /\ WF_vars(MutationResumes)
    /\ WF_vars(StoreAnswers)
    /\ WF_vars(FetchResumes)

SpecGenFair == SpecGen /\ FairGen

\* ------------------------------------------------------------------------
\* Rate limiter: properties
\* ------------------------------------------------------------------------
\* the entries of list l that are strictly younger than the window at time t
YoungIndices(l, t) == {i \in DOMAIN l : t - l[i] < windowMs}

SetMin(S) == CHOOSE x \in S : \A y \in S : x <= y

\* C3: starting from an empty log, each of the first 5 calls made within
\* 60 s of the first one returns allowed: true with no retryAfterSeconds.
C3_FirstFiveAllowed ==
    (rlLast.made /\ rlCalls <= 5 /\ rlLast.at - rlFirstAt < windowMs)
        => (rlLast.result.allowed /\ ~rlLast.result.hasRetry)

C3_Witness ==
    /\ rlCalls = 5
    /\ rlLast.at - rlFirstAt = windowMs - 1
    /\ rlLast.result.allowed
    /\ Len(rlRaw.val) = 5

\* C4: after 5 allowed calls made inside one 60 s window, the next call
\* inside that window is denied with retryAfterSeconds in 1..60.
C4_SixthDenied ==
    (rlLast.made /\ Len(rlLast.streak) = 5 /\ rlLast.at - rlLast.streak[1] < windowMs)
        => /\ ~rlLast.result.allowed
           /\ rlLast.result.hasRetry
           /\ rlLast.result.retryAfterSeconds \in 1..60

C4_Witness ==
    /\ rlLast.made
    /\ Len(rlLast.streak) = 5
    /\ rlLast.at - rlLast.streak[1] = windowMs - 1
    /\ ~rlLast.result.allowed
    /\ rlLast.result.retryAfterSeconds = 1

\* C5: entries 60 s old or older do not count: once 60 s have passed since
\* the oldest recorded timestamp the call is allowed, and the decision is
\* "allowed" exactly when fewer than 5 entries are strictly younger than 60 s.
C5_ExpiredDoNotCount ==
    rlLast.made =>
        LET l == rlLast.before.val
            t == rlLast.at
        IN  /\ (l # <<>> /\ t - SetMin({l[i] : i \in DOMAIN l}) >= windowMs)
                  => rlLast.result.allowed
            /\ rlLast.result.allowed
                  <=> (Cardinality(YoungIndices(l, t)) < MAX_GENERATIONS_PER_MINUTE)

C5_Witness ==
    /\ rlLast.made
    /\ Len(rlLast.before.val) = 5
    /\ rlLast.at - rlLast.before.val[1] = windowMs
    /\ Cardinality(YoungIndices(rlLast.before.val, rlLast.at)) = 4
    /\ rlLast.result.allowed

\* C8: from an empty log the persisted list never holds more than 5
\* entries, and an allowed call persists the entries still inside the
\* window, in their order, followed by one new entry equal to the clock.
C8_LogBounded ==
    /\ Len(rlRaw.val) <= MAX_GENERATIONS_PER_MINUTE
    /\ (rlLast.made /\ rlLast.result.allowed) =>
          LET l == rlLast.before.val
              t == rlLast.at
              expired == Len(l) - Cardinality(YoungIndices(l, t))
          IN  /\ rlRaw.kind = "list"
              /\ rlRaw.val = Append(SubSeq(l, expired + 1, Len(l)), t)
              /\ \A i \in DOMAIN rlRaw.val : t - rlRaw.val[i] < windowMs

C8_Witness ==
    /\ rlLast.made
    /\ rlLast.result.allowed
    /\ Len(rlLast.before.val) = 5
    /\ Len(rlRaw.val) = 3
    /\ rlRaw.val[3] = rlLast.at

\* C6: the call fails open on every storage failure: getItem throwing, a
\* stored value that is not JSON or not a list, or setItem throwing all
\* give allowed: true, and nothing is raised to the caller.
C6_FailOpen ==
    rlLast.made =>
        LET l == rlLast.before.val
            readFails == rlLast.getThrows
            corrupted == rlLast.before.kind \in {"garbage", "nonlist"}
            writeFails == /\ rlLast.setThrows
                          /\ rlLast.before.kind \in {"null", "empty", "list"}
                          /\ Cardinality(YoungIndices(l, rlLast.at)) < MAX_GENERATIONS_PER_MINUTE
        IN  /\ ~rlLast.result.raised
            /\ (~rlLast.hasWindow \/ readFails \/ corrupted \/ writeFails)
                  => (rlLast.result.allowed /\ rlRaw = rlLast.before)

C6_Witness ==
    /\ rlLast.made
    /\ rlLast.hasWindow
    /\ ~rlLast.getThrows
    /\ rlLast.setThrows
    /\ Len(rlLast.before.val) = 4
    /\ Cardinality(YoungIndices(rlLast.before.val, rlLast.at)) = 4
    /\ rlLast.result.allowed
    /\ rlRaw = rlLast.before

\* C7: a denied call returns ceil((60000 - (now - oldestInWindow)) / 1000)
\* clamped to 1..60, oldestInWindow being the smallest timestamp still
\* inside the window, for any persisted list of timestamps.
C7_RetryClamped ==
    (rlLast.made /\ ~rlLast.result.allowed) =>
        LET l == rlLast.before.val
            t == rlLast.at
            oldestInWindow == SetMin({l[i] : i \in YoungIndices(l, t)})
        IN  rlLast.result.retryAfterSeconds
               = Min(60, Max(1, Ceil(windowMs - (t - oldestInWindow), 1000)))

\* ------------------------------------------------------------------------
\* Storage service: properties
\* ------------------------------------------------------------------------
ListReads == {"getSavedItems", "searchSavedItems"}

\* C1: a list read made after an invalidation never returns data that was
\* read from the store before that invalidation, whatever background
\* refresh was in flight.
C1_InvalidateWins ==
    (lastRead.made /\ lastRead.op \in ListReads) => ~lastRead.stale

C10_NoFullImageInListing ==
    /\ lastQuery.op \in {"list", "getItemImageUrls"} => "image_url" \notin lastQuery.columns
    /\ "image_url" \in lastQuery.columns => lastQuery.point

\* C11: a saveItem / removeItem whose insert or delete the store answers
\* with an error raises to its caller, and one that raises is one whose
\* write failed: a failed write never ends as a normal return.
C11_WriteFailureRaises ==
    (configured /\ lastDone.made) => (lastDone.raised <=> ~lastDone.ok)

C11_Witness ==
    /\ configured
    /\ lastDone.made
    /\ lastDone.op = "saveItem"
    /\ ~lastDone.ok
    /\ lastDone.raised
    /\ store = InitialRows

\* C12: no read raises; a getSavedItems or searchSavedItems whose store
\* request fails returns the empty list, and getItemById returns nothing
\* when its request fails or the store has no row of that id.
C12_ReadsNeverRaise ==
    lastRead.made =>
        /\ ~lastRead.raised
        /\ ~lastRead.ok => lastRead.items = <<>>
        /\ (lastRead.op = "getItemById" /\ lastQuery.op = "getItemById"
               /\ \A i \in DOMAIN store : store[i].id # lastQuery.id)
              => lastRead.items = <<>>

C12_Witness ==
    /\ lastRead.made
    /\ lastRead.op = "getSavedItems"
    /\ ~lastRead.fromCache
    /\ ~lastRead.ok
    /\ ~lastRead.raised
    /\ lastRead.items = <<>>
    /\ store # <<>>

\* the URL is unset, empty or holds a placeholder value
UrlUnusable(url) ==
    \/ url = UnsetUrl
    \/ url = EmptyUrl
    \/ \E i \in DOMAIN url.val : url.val[i] = "placeholder"

\* a step that is the call of a store operation
StoreOperationCalled == nextTask' # nextTask /\ supabaseUrl' = supabaseUrl

\* C13: a store operation called while the URL is unset, empty or a
\* placeholder sends no request, leaves both cache keys and the store as
\* they are, and returns the empty list, nothing, or without a value;
\* the URL is looked at by each call.
C13_UnconfiguredNoOp ==
    [][ (UrlUnusable(supabaseUrl) /\ StoreOperationCalled) =>
           /\ tasks' = tasks
           /\ lastQuery' = lastQuery
           /\ cacheItems' = cacheItems
           /\ cacheTs' = cacheTs
           /\ store' = store
           /\ lastCall' = lastCall
           /\ lastRead' # lastRead =>
                  (~lastRead'.raised /\ lastRead'.items = <<>> /\ ~lastRead'.fromCache)
           /\ lastDone' # lastDone =>
                  (~lastDone'.raised /\ ~lastDone'.ok) ]_vars

C13_Witness ==
    /\ UrlUnusable(supabaseUrl)
    /\ lastRead.made
    /\ lastRead.op = "getSavedItems"
    /\ lastRead.ok
    /\ ~lastRead.fromCache
    /\ lastRead.items = <<>>
    /\ store = InitialRows
    /\ tasks = EmptyBag
    /\ cacheItems # NoValue
    /\ now - cacheTs > CACHE_DURATION

\* ------------------------------------------------------------------------
\* handleGenerate: properties
\* ------------------------------------------------------------------------
Happened(e) == \E i \in DOMAIN events : events[i] = e

\* every e2 in the attempt's events comes after some e1
Precedes(e1, e2) ==
    \A i \in DOMAIN events : events[i] = e2 => \E j \in 1..(i - 1) : events[j] = e1

\* C14: in an attempt the text request has completed, successfully, before
\* the image request is issued, and the image request has completed, either
\* way, before saveItem is called.
C14_StepsInOrder ==
    /\ Precedes("text", "textOk")
    /\ Precedes("textOk", "image")
    /\ Precedes("textOk", "save")
    /\ Precedes("image", "imageOk")
    /\ Precedes("image", "imageFailed")
    /\ \A i \in DOMAIN events :
          events[i] = "save" => (i > 1 /\ events[i - 1] \in {"imageOk", "imageFailed"})

C14_Witness ==
    /\ Len(events) >= 5
    /\ SubSeq(events, 1, 5) = <<"text", "textOk", "image", "imageOk", "save">>
    /\ genPc = "idle"

\* C15: when the image step fails after the text step succeeded, the
\* result shown is the text-only result, no error is shown, and saveItem is
\* called with that result.
C15_ImageFailureSwallowed ==
    Happened("imageFailed") =>
        /\ result = [kind |-> "item", image |-> FALSE]
        /\ error = "null"
        /\ Happened("save")
        /\ savedWith = result

C15_Witness ==
    /\ Happened("imageFailed")
    /\ Happened("saved")
    /\ genPc = "idle"
    /\ result = [kind |-> "item", image |-> FALSE]
    /\ store[1].id = Len(InitialRows) + attempts
    /\ ~store[1].image

\* C16: a failure of the text step ends the attempt: an error message is
\* shown, there is no result, and neither the image request nor saveItem
\* follows.
C16_TextFailureEnds ==
    Happened("textFailed") =>
        /\ genPc = "idle"
        /\ ~isGenerating
        /\ error # "null"
        /\ result = NoResult
        /\ ~Happened("image")
        /\ ~Happened("save")

C16_Witness ==
    /\ events = <<"text", "textFailed">>
    /\ error = "Invalid JSON response from generator."
    /\ attempts = 2

\* checkClientRateLimit would deny a call made now
LimiterDenies == ~checkClientRateLimit(rlRaw, now, TRUE, FALSE, FALSE).allowed

\* C17: an attempt made while the rate limiter denies shows an error and
\* issues no text, image or persist request.
C17_DeniedAttemptStops ==
    (LimiterDenies /\ attempts > 0) => (events = <<>> /\ error # "null")

\* C18: saveItem inserts a thumbnail exactly when the item has an image
\* and generateThumbnail resolves; otherwise the row is still inserted,
\* without thumbnail, and saveItem raises only when the insert fails.
C18_ThumbnailBestEffort ==
    /\ \A t \in BagToSet(tasks) :
          t.kind = "save" =>
              /\ t.arg.thumb <=> (t.arg.image /\ t.derives)
              /\ t.arg.image = savedWith.image
    /\ (configured /\ lastDone.made /\ lastDone.op = "saveItem") =>
          /\ lastDone.raised <=> ~lastDone.ok
          /\ (lastDone.ok /\ ~InFlight({"save"})) =>
                /\ store[1].thumb <=> (store[1].image /\ lastDone.derives)
                /\ store[1].image = savedWith.image

C18_Witness ==
    /\ lastDone.made
    /\ lastDone.op = "saveItem"
    /\ lastDone.ok
    /\ ~lastDone.raised
    /\ ~lastDone.derives
    /\ genPc = "save"
    /\ ~InFlight({"save"})
    /\ savedWith.image
    /\ store[1].id = Len(InitialRows) + 1
    /\ store[1].image
    /\ ~store[1].thumb

\* C19: invalidateCache never raises, with the keys present, absent, or
\* removeItem raising; over a storage that works it leaves both keys
\* absent whatever they held.
C19_InvalidateTotal ==
    (lastDone.made /\ lastDone.op = "invalidateCache") =>
        /\ ~lastDone.raised
        /\ lastDone.ok => lastDone.keysAbsent

C19_Witness ==
    /\ lastDone.made
    /\ lastDone.op = "invalidateCache"
    /\ lastDone.ok
    /\ lastDone.hadEntry
    /\ lastDone.keysAbsent
    /\ KeysAbsent(cacheItems, cacheTs)

\* the query is empty or white space only
Blank(query) == \A i \in DOMAIN query : query[i] = " "

\* C20: searchSavedItems with an empty or white-space query does what
\* getSavedItems() without limit does in the same cache and store state:
\* a fresh entry is returned whole and refreshed in the background, an
\* absent or expired one is replaced by the store's listing, which is
\* what the call returns.
C20_BlankSearchIsList ==
    /\ (lastCall.made /\ lastCall.caller = "searchSavedItems" /\ Blank(lastCall.query)) =>
          /\ lastCall.op = "getSavedItems"
          /\ lastCall.limit = 0
          /\ lastCall.hit = (lastCall.entry /\ lastCall.age <= CACHE_DURATION)
          /\ lastCall.returned = (IF lastCall.hit THEN lastCall.cached ELSE <<>>)
          /\ lastCall.keysAfter = lastCall.hit
          /\ lastCall.fetches = ~lastCall.hit
    /\ \A t \in BagToSet(tasks) :
          (t.op = "searchSavedItems" /\ Blank(t.query)) =>
              /\ t.kind \in {"get", "refresh"}
              /\ t.limit = 0

C20_Witness ==
    /\ lastCall.made
    /\ lastCall.caller = "searchSavedItems"
    /\ lastCall.query = <<" ">>
    /\ lastCall.hit
    /\ Len(lastCall.cached) = 2
    /\ lastCall.returned = lastCall.cached
    /\ lastRead.op = "searchSavedItems"
    /\ lastRead.items = lastCall.cached

\* a request sent by the step
SentNow(t) == t.phase = "sent" /\ CopiesIn(t, tasks') > CopiesIn(t, tasks)

\* the continuation of request t runs in the step
ResumedNow(t) == t.phase = "answered" /\ tasks' = Drop(t)

C22_HitIgnoresEarlierLimits ==
    (lastCall.made /\ lastCall.op = "getSavedItems" /\ lastCall.hit) =>
        Len(lastCall.returned) = Len(QueryRows(store, lastCall.limit))

\* the identifiers of the items of a list
IdsOf(items) == {items[i].id : i \in DOMAIN items}

\* C23: over the same rows and the same non-empty query, searchSavedItems
\* on the warm-cache path returns the set of items its store path would
\* return, the rows whose lower-cased fields contain the lower-cased
\* query, and sends a background refresh.
C23_WarmSearchIsStoreSearch ==
    (lastCall.made /\ lastCall.op = "searchSavedItems" /\ lastCall.hit) =>
        IdsOf(lastCall.returned)
           = IdsOf(SelectSeq(QueryRows(store, 0),
                             LAMBDA row : Matches(row.name, lastCall.query)))

\* the n first items of a list with their identifier and item data only
FirstBare(list, n) ==
    [i \in 1..(IF n < Len(list) THEN n ELSE Len(list)) |->
        [id |-> list[i].id, name |-> list[i].name]]

C25_CacheIsLightweight ==
    /\ cacheItems.kind = "list" =>
          \A i \in DOMAIN cacheItems.val :
              /\ DOMAIN cacheItems.val[i] \subseteq {"id", "name", "imageUrl"}
              /\ "imageUrl" \in DOMAIN cacheItems.val[i]
                    => cacheItems.val[i].imageUrl \in {"thumbnail", "null"}
    /\ (lastRead.made /\ lastRead.fromCache) =>
          \A i \in DOMAIN lastRead.items :
              /\ lastRead.items[i].imagePrompt = ""
              /\ lastRead.items[i].itemCard = ""
              /\ lastRead.items[i].imageUrl \in {"thumbnail", "null"}

C25_Witness ==
    /\ cacheItems.kind = "list"
    /\ Len(cacheItems.val) = 3
    /\ cacheItems.val[1].imageUrl = "thumbnail"
    /\ cacheItems.val[2].imageUrl = "null"
    /\ store[1].image
    /\ lastRead.made
    /\ lastRead.fromCache
    /\ Len(lastRead.items) = 2

\* C26: when a store fetch ends in an error, the continuation of that
\* fetch, awaited or in the background, leaves both cache keys as they
\* were: no empty list is written and the timestamp is not renewed.
C26_FailedFetchKeepsCache ==
    [][ \A t \in BagToSet(tasks) :
           (ResumedNow(t) /\ t.kind \in {"get", "refresh", "search", "searchFetch"} /\ ~t.ok)
           => (cacheItems' = cacheItems /\ cacheTs' = cacheTs) ]_vars

\* C27: over a log written by the limiter alone under a clock that does
\* not go back, a call denied at time t with retryAfterSeconds r and
\* followed, with no call in between, by a call at t + r * 1000 ms or
\* later: that call is allowed.
C27_RetryHintSuffices ==
    (rlLast.made /\ rlLast.prev.made /\ ~rlLast.prev.allowed
        /\ rlLast.at >= rlLast.prev.at + rlLast.prev.retryAfterSeconds * 1000)
    => rlLast.result.allowed

C27_Witness ==
    /\ rlLast.made
    /\ rlLast.prev.made
    /\ ~rlLast.prev.allowed
    /\ rlLast.prev.retryAfterSeconds = 15
    /\ rlLast.at = rlLast.prev.at + 15000
    /\ rlLast.result.allowed
    /\ Len(rlLast.before.val) = 5
    /\ Len(rlRaw.val) = 5

\* C28: a denied call leaves the persisted log as it found it: the
\* attempt is not recorded and the list is not rewritten, so the entry
\* whose expiry ends the block stays the same through repeated attempts.
C28_DeniedLeavesLog ==
    (rlLast.made /\ ~rlLast.result.allowed) =>
        /\ rlRaw = rlLast.before
        /\ rlLast.result.stored = rlLast.before

C28_Witness ==
    /\ rlLast.made
    /\ ~rlLast.result.allowed
    /\ rlLast.prev.made
    /\ ~rlLast.prev.allowed
    /\ rlLast.at = rlLast.prev.at + 999
    /\ rlLast.result.retryAfterSeconds < rlLast.prev.retryAfterSeconds
    /\ rlRaw = rlLast.before
    /\ Len(rlRaw.val) = 5

\* an attempt that set isGenerating has ended
AttemptEnded == genPc = "idle" /\ events # <<>>

\* C29: an attempt that sets isGenerating sets it back to false in the
\* end, whatever the text, image and persist steps give; until then,
\* through the persist step and the reload of the recent items,
\* isGenerating is true; when the attempt has ended exactly one of result
\* and error is set.
C29_AttemptTerminates ==
    /\ [](genPc # "idle" => isGenerating)
    /\ [](AttemptEnded => (~isGenerating /\ ((result # NoResult) # (error # "null"))))
    /\ (isGenerating ~> ~isGenerating)

C29_Witness ==
    /\ genPc = "idle"
    /\ ~isGenerating
    /\ events = <<"text", "textOk", "image", "imageOk", "save", "saved", "list", "listed">>
    /\ result = [kind |-> "item", image |-> TRUE]
    /\ error = "null"
    /\ Len(recentItems) = 3

====
